---- MODULE Spec2Model ----
(***************************************************************************)
(* Model of daily_digest.py: the batch job that fetches quotes for a       *)
(* fixed watchlist (get_market_and_macro), curates news per category with  *)
(* an AI summarizer (get_ai_news) and writes one snapshot (__main__).      *)
(*                                                                         *)
(* Python values are represented as follows.  A dictionary key that is     *)
(* absent is the string Missing, the value None is the string Null.        *)
(* Prices are integers in hundredths (1/100), so that the two-decimal      *)
(* formatting of the code is a rounding on integers.                       *)
(***************************************************************************)
EXTENDS Integers, Sequences, FiniteSets, TLC

\* ------------------------------------------------------------------ bounds

\* Total number of articles the news provider delivers during one run of
\* get_ai_news alone (all categories together).
MaxFeed == 4

\* The same, for the whole run of the program (quotes, then news, then file).
MaxFeedMain == 1

\* ------------------------------------------------------- program constants

\* pageSize=15 in the news query.
PAGE_SIZE == 15

\* "if count >= 3: break"
CAP == 3

Missing == "<missing>"
Null == "<null>"

\* Keys of CATEGORIES, in insertion order.
CATEGORIES == <<"headlines", "ai", "crypto">>

\* tickers, in insertion order (name, symbol).
tickers ==
  << [name |-> "S&P 500", symbol |-> "^GSPC"],
     [name |-> "Nasdaq", symbol |-> "^IXIC"],
     [name |-> "HSI", symbol |-> "^HSI"],
     [name |-> "Bitcoin", symbol |-> "BTC-USD"],
     [name |-> "VIX", symbol |-> "^VIX"],
     [name |-> "US10Y", symbol |-> "^TNX"],
     [name |-> "DXY", symbol |-> "DX-Y.NYB"],
     [name |-> "WTI", symbol |-> "CL=F"] >>

\* The names tested by "is_macro = name in [...]".
MACRO_NAMES == {"VIX", "US10Y", "DXY", "WTI"}

\* ------------------------------------------------------------ input sets

\* What ticker.history(period="5d") can give: an exception ("error"), or a
\* frame of closing prices (hundredths), here of 0, 1, 2 or 3 rows.
Hists == { <<>>, <<10000>>, <<10000, 10250>>, <<9900, 10000, 10250>> }
QuoteOutcomes == {[kind |-> "error", close |-> <<>>]}
                 \cup {[kind |-> "frame", close |-> h] : h \in Hists}

\* An article of the provider, as far as the code reads it: its title (a
\* string, None, or no such key), whether it has a 'description' key, and
\* whether art['url'] and art['publishedAt'][:10] can be evaluated.
ArtTitles == {Missing, Null, "a", "b"}
Articles == [title : ArtTitles, has_description : BOOLEAN, has_meta : BOOLEAN]

\* What model.generate_content(prompt) followed by json.loads gives: an
\* exception ("error"), a JSON object ("object"), a list whose first element
\* is a JSON object ("list"), an empty list ("empty_list") or some other JSON
\* value ("scalar").  The object's keys: title_zh (a string or absent),
\* impact (a string or absent), score (absent: score_kind "missing"; a
\* number: "number"; any other JSON value: "other").
RespTitles == {Missing, "a", "b"}
RespScores == {0, 8, 9}
\* The records with the top score carry an impact, the others none.
Records ==
  [title_zh : RespTitles, impact : {"bullish"}, score_kind : {"number"}, score : {9}]
  \cup [title_zh : RespTitles, impact : {Missing}, score_kind : {"number"}, score : RespScores \ {9}]
  \cup [title_zh : RespTitles, impact : {Missing}, score_kind : {"missing", "other"}, score : {0}]
NoRecord == [title_zh |-> Missing, impact |-> Missing, score_kind |-> "missing", score |-> 0]
AIResponses ==
  {[shape |-> s, rec |-> NoRecord] : s \in {"error", "empty_list", "scalar"}}
  \cup {[shape |-> s, rec |-> r] : s \in {"object", "list"}, r \in Records}

\* ----------------------------------------------------------------- state

VARIABLES
  NEWS_API_KEY,            \* os.getenv("NEWS_API_KEY") is set
  GEMINI_API_KEY,          \* os.getenv("GEMINI_API_KEY") is set (model defined)
  pc,                      \* position of the run
  sym_i,                   \* get_market_and_macro: index of the next ticker
  data_list,               \* get_market_and_macro: data_list
  fetched,                 \* names whose history came back with at least 2 rows
  market_indices,          \* __main__: market_indices
  macro_indicators,        \* __main__: macro_indicators
  cat_i,                   \* get_ai_news: index of the current category
  articles,                \* get_ai_news: articles of the category not yet iterated
  current_category_topics, \* get_ai_news: current_category_topics
  count,                   \* get_ai_news: count
  final_news,              \* get_ai_news: final_news
  news,                    \* the list get_ai_news returned
  snapshot,                \* final_output as written to daily_news.json
  log,                     \* the last diagnostic line printed by a loop body
  ai_calls,                \* number of model.generate_content calls so far
  ai_errors,               \* number of times the try block ended in "except"
  last_call_delayed,       \* time.sleep(2) ran after the last such call
  feed                     \* articles the provider can still deliver (bound)

vars == <<NEWS_API_KEY, GEMINI_API_KEY, pc, sym_i, data_list, fetched, market_indices,
          macro_indicators, cat_i, articles, current_category_topics, count,
          final_news, news, snapshot, log, ai_calls, ai_errors, last_call_delayed,
          feed>>

marketVars == <<sym_i, data_list, fetched>>
mainVars == <<market_indices, macro_indicators, snapshot>>
newsVars == <<cat_i, articles, current_category_topics, count, final_news, news,
              ai_calls, ai_errors, last_call_delayed, feed>>

NoSnapshot == [written |-> FALSE, update_time |-> Missing, market |-> <<>>,
               news |-> <<>>, macro |-> <<>>]

Min(a, b) == IF a <= b THEN a ELSE b

\* ------------------------------------------------ get_market_and_macro

\* float(f"{x:.2f}") for x given in 1/10000: the nearest hundredth.
Round2(x) == IF x >= 0 THEN (x + 50) \div 100 ELSE -((-x + 50) \div 100)

\* The dictionary appended for a frame of at least two rows.
QuoteEntry(name, close) ==
  LET price == close[Len(close)]
      prev_close == close[Len(close) - 1]
      change == price - prev_close
      \* (change / prev_close) * 100, in 1/10000
      percent == (change * 1000000) \div prev_close
  IN [name |-> name, price |-> Round2(price * 100), change |-> Round2(change * 100),
      percent |-> Round2(percent), is_macro |-> name \in MACRO_NAMES]

\* Enough rows to compute a change: "if len(hist) >= 2".
EnoughDataStrict(close) == Len(close) > 2
EnoughData(close) == Len(close) >= 2

\* One iteration of "for name, symbol in tickers.items()".
FetchQuote ==
  /\ pc = "market"
  /\ sym_i <= Len(tickers)
  /\ \E q \in QuoteOutcomes :
       LET name == tickers[sym_i].name IN
       /\ IF q.kind = "error"
          THEN /\ data_list' = data_list
               /\ log' = "quote_failed"
          ELSE IF EnoughData(q.close)
          THEN /\ data_list' = Append(data_list, QuoteEntry(name, q.close))
               /\ log' = "quote_ok"
          ELSE /\ data_list' = data_list
               /\ log' = "quote_insufficient"
       /\ fetched' = IF q.kind = "frame" /\ Len(q.close) >= 2
                      THEN fetched \cup {name} ELSE fetched
  /\ sym_i' = sym_i + 1
  /\ UNCHANGED <<NEWS_API_KEY, GEMINI_API_KEY, pc>>
  /\ UNCHANGED mainVars
  /\ UNCHANGED newsVars

\* "return data_list", and the split of the list in __main__.
ReturnMarket ==
  /\ pc = "market"
  /\ sym_i > Len(tickers)
  /\ market_indices' = SelectSeq(data_list, LAMBDA x : ~x.is_macro)
  /\ macro_indicators' = SelectSeq(data_list, LAMBDA x : x.is_macro)
  /\ pc' = "news_call"
  /\ UNCHANGED <<NEWS_API_KEY, GEMINI_API_KEY, snapshot, log>>
  /\ UNCHANGED marketVars
  /\ UNCHANGED newsVars

\* ------------------------------------------------------------ get_ai_news

\* "if not NEWS_API_KEY: return []", else "final_news = []" and the first
\* category.
NewsStart ==
  /\ pc = "news_call"
  /\ IF ~NEWS_API_KEY
     THEN /\ news' = <<>>
          /\ pc' = "assemble"
          /\ UNCHANGED <<final_news, cat_i>>
     ELSE /\ final_news' = <<>>
          /\ cat_i' = 1
          /\ pc' = "categories"
          /\ news' = news
  /\ UNCHANGED <<NEWS_API_KEY, GEMINI_API_KEY, log, articles, current_category_topics,
                 count, ai_calls, ai_errors, last_call_delayed, feed>>
  /\ UNCHANGED marketVars
  /\ UNCHANGED mainVars

\* What requests.get(url).json() followed by response.get("articles", [])
\* gives: an exception ("error"), the value None for the key ("null"), or a
\* list of n articles ("list"; the provider's error object has no such key,
\* which is the list of 0 articles).
NewsOutcomes ==
  {[kind |-> "error", n |-> 0], [kind |-> "null", n |-> 0]}
  \cup {[kind |-> "list", n |-> n] : n \in 0..Min(PAGE_SIZE, feed)}

\* The head of one iteration of "for category, query in CATEGORIES.items()":
\* the fetch, "except: continue", and the reset of the per-category state.
\* Iterating None ("for art in articles") raises outside any try.
FetchNews ==
  /\ pc = "categories"
  /\ cat_i <= Len(CATEGORIES)
  /\ \E r \in NewsOutcomes :
       CASE r.kind = "error" ->
              /\ cat_i' = cat_i + 1
              /\ UNCHANGED <<pc, articles, current_category_topics, count, feed>>
         [] r.kind = "null" ->
              /\ pc' = "raised"
              /\ current_category_topics' = <<>>
              /\ count' = 0
              /\ UNCHANGED <<cat_i, articles, feed>>
         [] r.kind = "list" ->
              /\ articles' = r.n
              /\ feed' = feed - r.n
              /\ current_category_topics' = <<>>
              /\ count' = 0
              /\ pc' = "articles"
              /\ cat_i' = cat_i
  /\ log' = "category"
  /\ UNCHANGED <<NEWS_API_KEY, GEMINI_API_KEY, final_news, news, ai_calls, ai_errors,
                 last_call_delayed>>
  /\ UNCHANGED marketVars
  /\ UNCHANGED mainVars

\* "any(art['title'] == t for t in current_category_topics)"
DuplicateTitle(art, topics) == \E i \in 1..Len(topics) : topics[i] = art.title

\* The statements of the loop body outside the try raise: art['title'] of an
\* article without the key (in the filter when the list is not empty, in the
\* prompt otherwise), the join of a list that holds None, art['description']
\* of an article without the key.
BodyRaises(art, topics) ==
  \/ art.title = Missing
  \/ /\ ~DuplicateTitle(art, topics)
     /\ \/ \E i \in 1..Len(topics) : topics[i] = Null
        \/ ~art.has_description

\* "analysis.get("score", 0) > 0" for a record whose score is a number or absent.
AcceptsGE(rec) == rec.score_kind = "number" /\ rec.score >= 0
Accepts(rec) == rec.score_kind = "number" /\ rec.score > 0

\* The try block as far as it decides the branch: "accepted", "discarded", or
\* "ai_error" for any exception (model undefined, the call, json.loads,
\* analysis[0] of an empty list, .get of a non-object, the comparison of a
\* non-number with 0, art['url'] or art['publishedAt'][:10] of the accepted
\* article, art['title'][:20] of a discarded article whose title is None).
Outcome(art, resp, key) ==
  IF ~key THEN "ai_error"
  ELSE IF resp.shape \notin {"object", "list"} THEN "ai_error"
  ELSE IF resp.rec.score_kind = "other" THEN "ai_error"
  ELSE IF Accepts(resp.rec)
       THEN IF art.has_meta THEN "accepted" ELSE "ai_error"
       ELSE IF art.title = Null THEN "ai_error" ELSE "discarded"

\* "title": analysis.get("title_zh", art['title'])
EmittedTitle(rec, art) == IF rec.title_zh = Missing THEN art.title ELSE rec.title_zh

\* analysis.get("title_zh"), as appended to current_category_topics
TopicTitle(rec) == IF rec.title_zh = Missing THEN Null ELSE rec.title_zh

\* The dictionary appended to final_news (link, date and summary, which are
\* copied from the article and the record, are left out).
NewsEntry(category, rec, art) ==
  [category |-> category,
   title |-> EmittedTitle(rec, art),
   impact |-> IF rec.impact = Missing THEN "neutral" ELSE rec.impact,
   score |-> rec.score]

\* "except Exception as e: print(...); continue": nothing is emitted for the
\* article.
ExceptBranchFallback(list, category, art) ==
  Append(list, [category |-> category, title |-> art.title, impact |-> "unrated", score |-> 0])
ExceptBranch(list, category, art) == list

\* "if count >= 3: break"
CapReachedLate(n) == n > CAP
CapReached(n) == n >= CAP

\* time.sleep(2) follows the if/else inside the try: it runs when no
\* exception was raised before it.
Sleeps(outcome) == outcome \in {"accepted", "discarded"}

\* One iteration of "for art in articles" that does not break.  The article
\* is read once, here, so its content is chosen here.
ProcessArticle ==
  /\ pc = "articles"
  /\ articles > 0
  /\ ~CapReached(count)
  /\ \E art \in Articles, resp \in AIResponses :
       LET topics == current_category_topics
           out == Outcome(art, resp, GEMINI_API_KEY)
           rec == resp.rec
       IN
       IF BodyRaises(art, topics)
       THEN /\ pc' = "raised"
            /\ UNCHANGED <<articles, current_category_topics, count, final_news, log,
                           ai_calls, ai_errors, last_call_delayed>>
       ELSE IF DuplicateTitle(art, topics)
       THEN /\ articles' = articles - 1
            /\ UNCHANGED <<pc, current_category_topics, count, final_news, log,
                           ai_calls, ai_errors, last_call_delayed>>
       ELSE /\ articles' = articles - 1
            /\ pc' = pc
            /\ log' = out
            /\ ai_calls' = IF GEMINI_API_KEY THEN ai_calls + 1 ELSE ai_calls
            /\ ai_errors' = IF out = "ai_error" THEN ai_errors + 1 ELSE ai_errors
            /\ last_call_delayed' =
                 IF Sleeps(out) THEN TRUE
                 ELSE IF GEMINI_API_KEY THEN FALSE ELSE last_call_delayed
            /\ IF out = "accepted"
               THEN /\ final_news' = Append(final_news, NewsEntry(CATEGORIES[cat_i], rec, art))
                    /\ current_category_topics' = Append(topics, TopicTitle(rec))
                    /\ count' = count + 1
               ELSE /\ final_news' = IF out = "ai_error"
                                      THEN ExceptBranch(final_news, CATEGORIES[cat_i], art)
                                      ELSE final_news
                    /\ UNCHANGED <<current_category_topics, count>>
  /\ UNCHANGED <<NEWS_API_KEY, GEMINI_API_KEY, cat_i, news, feed>>
  /\ UNCHANGED marketVars
  /\ UNCHANGED mainVars

\* The end of the inner loop: the list is exhausted, or "if count >= 3: break".
NextCategory ==
  /\ pc = "articles"
  /\ articles = 0 \/ CapReached(count)
  /\ cat_i' = cat_i + 1
  /\ pc' = "categories"
  /\ UNCHANGED <<NEWS_API_KEY, GEMINI_API_KEY, articles, current_category_topics, count,
                 final_news, news, log, ai_calls, ai_errors, last_call_delayed, feed>>
  /\ UNCHANGED marketVars
  /\ UNCHANGED mainVars

\* sorted(..., key=score, reverse=True) is stable: an element goes behind
\* the elements whose score is greater or equal.
InsertUnstable(s, e) ==
  LET k == Cardinality({i \in 1..Len(s) : s[i].score > e.score})
  IN SubSeq(s, 1, k) \o <<e>> \o SubSeq(s, k + 1, Len(s))
Insert(s, e) ==
  LET k == Cardinality({i \in 1..Len(s) : s[i].score >= e.score})
  IN SubSeq(s, 1, k) \o <<e>> \o SubSeq(s, k + 1, Len(s))

RECURSIVE Sorted(_)
Sorted(s) == IF s = <<>> THEN <<>> ELSE Insert(Sorted(SubSeq(s, 1, Len(s) - 1)), s[Len(s)])

\* "return sorted(final_news, key=lambda x: x['score'], reverse=True)"
ReturnNews ==
  /\ pc = "categories"
  /\ cat_i > Len(CATEGORIES)
  /\ news' = Sorted(final_news)
  /\ pc' = "assemble"
  /\ UNCHANGED <<NEWS_API_KEY, GEMINI_API_KEY, cat_i, articles, current_category_topics,
                 count, final_news, log, ai_calls, ai_errors, last_call_delayed, feed>>
  /\ UNCHANGED marketVars
  /\ UNCHANGED mainVars

\* --------------------------------------------------------------- __main__

\* final_output and json.dump to daily_news.json.
WriteSnapshot ==
  /\ pc = "assemble"
  /\ snapshot' = [written |-> TRUE, update_time |-> "now", market |-> market_indices,
                  news |-> news, macro |-> macro_indicators]
  /\ pc' = "done"
  /\ UNCHANGED <<NEWS_API_KEY, GEMINI_API_KEY, market_indices, macro_indicators, log>>
  /\ UNCHANGED marketVars
  /\ UNCHANGED newsVars

\* -------------------------------------------------------- specifications

InitCommon ==
  /\ NEWS_API_KEY \in BOOLEAN
  /\ GEMINI_API_KEY \in BOOLEAN
  /\ sym_i = 1
  /\ data_list = <<>>
  /\ fetched = {}
  /\ market_indices = <<>>
  /\ macro_indicators = <<>>
  /\ cat_i = 1
  /\ articles = 0
  /\ current_category_topics = <<>>
  /\ count = 0
  /\ final_news = <<>>
  /\ news = <<>>
  /\ snapshot = NoSnapshot
  /\ log = "start"
  /\ ai_calls = 0
  /\ ai_errors = 0
  /\ last_call_delayed = TRUE

\* The start of the program.
Init ==
  /\ InitCommon
  /\ pc = "market"
  /\ feed = MaxFeedMain

\* The call of get_ai_news.
InitNews ==
  /\ InitCommon
  /\ pc = "news_call"
  /\ feed = MaxFeed

NextMarket == FetchQuote \/ ReturnMarket

NextNews == NewsStart \/ FetchNews \/ ProcessArticle \/ NextCategory \/ ReturnNews

Next == FetchQuote \/ ReturnMarket \/ NewsStart \/ FetchNews \/ ProcessArticle
        \/ NextCategory \/ ReturnNews \/ WriteSnapshot

\* The whole run.
Spec == Init /\ [][Next]_vars

\* get_market_and_macro alone.
SpecMarket == Init /\ [][NextMarket]_vars

\* get_ai_news alone.
SpecNews == InitNews /\ [][NextNews]_vars

\* ------------------------------------------------------------- properties

\* get_ai_news has returned its list.
Returned == pc \in {"assemble", "done"}

\* The entries of a list that belong to a category, and their titles.
OfCategory(list, c) == LET InC(e) == e.category = c IN SelectSeq(list, InC)
TitlesOf(list) == [i \in 1..Len(list) |-> list[i].title]
NamesOf(list) == [i \in 1..Len(list) |-> list[i].name]

\* Every attempt to use the summarizer so far ended in the except branch.
AllAIFailed == IF GEMINI_API_KEY THEN ai_errors = ai_calls ELSE TRUE

\* C1: the list returned by get_ai_news never contains two entries with
\* score > 0 that have the same category and the same title.
C1_NoDuplicateTitles ==
  Returned =>
    \A i, j \in 1..Len(news) :
      (i # j /\ news[i].score > 0 /\ news[j].score > 0
       /\ news[i].category = news[j].category) => news[i].title # news[j].title

C3_NeverRaises == pc # "raised"

\* C4: the returned list is ordered by score descending, and entries of
\* equal score keep the order in which they were accepted.
C4_SortedStable ==
  Returned =>
    /\ \A i, j \in 1..Len(news) : i < j => news[i].score >= news[j].score
    /\ Len(news) = Len(final_news)
    /\ \A sc \in RespScores :
         LET HasScore(e) == e.score = sc
         IN SelectSeq(news, HasScore) = SelectSeq(final_news, HasScore)

\* A returned list in which the sort moved an entry and which holds two
\* different entries of equal score.
C4_Witness ==
  /\ Returned
  /\ news # final_news
  /\ \E i, j \in 1..Len(news) : i < j /\ news[i].score = news[j].score /\ news[i] # news[j]

\* C5: when get_market_and_macro returns, its list holds exactly one entry
\* for each symbol whose history had at least 2 rows and none for the others,
\* in the order of the watchlist.
C5_OneEntryPerFetchedSymbol ==
  LET Fetched(t) == t.name \in fetched
  IN /\ NamesOf(data_list) = NamesOf(SelectSeq(SubSeq(tickers, 1, sym_i - 1), Fetched))
     /\ pc # "market" => NamesOf(data_list) = NamesOf(SelectSeq(tickers, Fetched))

\* get_market_and_macro returned after the fetch failed or came back short
\* for exactly two symbols.
C5_Witness ==
  /\ pc = "news_call"
  /\ Cardinality(fetched) = Len(tickers) - 2
  /\ Len(data_list) = Len(tickers) - 2

\* C6: every entry get_ai_news emits has score > 0.
C6_NoZeroScore ==
  /\ \A i \in 1..Len(final_news) : final_news[i].score > 0
  /\ \A i \in 1..Len(news) : news[i].score > 0

\* An article was just discarded while another one had been accepted.
C6_Witness == pc = "articles" /\ log = "discarded" /\ final_news # <<>>

\* C7: at most 3 articles are emitted per category, no AI call is made for a
\* category once 3 are accepted, a discarded candidate or a failed call
\* leaves the accepted count unchanged and the loop goes on, and the loop
\* over a category ends only with 3 accepted or the list exhausted.
C7_CapPerCategory ==
  /\ [](/\ count <= CAP
        /\ \A i \in 1..Len(CATEGORIES) : Len(OfCategory(final_news, CATEGORIES[i])) <= CAP)
  /\ [][/\ ai_calls' # ai_calls => (count < CAP /\ articles > 0)
        /\ (ai_errors' # ai_errors \/ (log' = "discarded" /\ articles' # articles))
             => (count' = count /\ final_news' = final_news /\ pc' = "articles"
                 /\ articles' = articles - 1)
        /\ (pc = "articles" /\ pc' = "categories") => (count = CAP \/ articles = 0)]_vars

\* The cap is reached while a candidate of the category is left.
C7_Witness == pc = "articles" /\ count = CAP /\ articles > 0 /\ ai_calls = CAP

\* C8: with a credential absent get_ai_news does not raise and returns an
\* empty list, and the snapshot is written with all its keys and empty news.
C8_MissingKeyGivesEmptyNews ==
  (~NEWS_API_KEY \/ ~GEMINI_API_KEY) =>
    /\ pc # "raised"
    /\ Returned => news = <<>>
    /\ pc = "done" => (snapshot.written /\ snapshot.update_time # Missing
                       /\ snapshot.news = <<>>)

\* C9: a delay lies between every two consecutive AI calls: when a call is
\* made, the call before it (if any) was followed by time.sleep.
C9_DelayBetweenCalls == [][ai_calls' # ai_calls => last_call_delayed]_vars

\* C10: while a category is processed, the dedup list is the list of titles
\* emitted for that category so far, and its length is the accepted count.
C10_TopicsAreEmittedTitles ==
  pc = "articles" =>
    /\ current_category_topics = TitlesOf(OfCategory(final_news, CATEGORIES[cat_i]))
    /\ Len(current_category_topics) = count

====
